---------------------------- MODULE Spec2Model ----------------------------
(***************************************************************************)
(* A model of aos/devices.py: the accessors of AosManagedDevices,          *)
(* AosSystemAgents and AosDeviceProfiles over an injected REST transport.  *)
(*                                                                         *)
(* The transport (self.rest) is the environment.  Each of its calls ends   *)
(* in one of three ways, chosen nondeterministically:                      *)
(*     [kind |-> "null"]               the decoded body is None            *)
(*     [kind |-> "body", body |-> b]   the decoded JSON body b             *)
(*     [kind |-> "raise"]              the transport raises AosAPIError    *)
(* A JSON object is a function from the keys it holds to their values, so  *)
(* that obj["k"] fails exactly when "k" \notin DOMAIN obj; a JSON list is  *)
(* a sequence.                                                             *)
(*                                                                         *)
(* A call is recorded in the variables below.  The two loops               *)
(* (add_device_profiles, delete_device_profiles) advance one iteration per *)
(* step; every other method is one step.                                   *)
(***************************************************************************)
EXTENDS Integers, Sequences, FiniteSets, TLC

VARIABLES
    op,      \* the method called last ("idle" before the first call)
    pc,      \* "idle" | "loop" (inside a batch loop) | "returned" | "raised"
    args,    \* the arguments of the call
    i,       \* the loop index of add/delete_device_profiles
    ids,     \* the local list `ids` of add/delete_device_profiles
    calls,   \* the transport calls issued so far, with the reply of each
    sleeps,  \* one entry per time.sleep: [secs, posts], posts = POSTs issued before it
    result   \* what the caller gets: Ok(value), an error, or NoResult

vars == <<op, pc, args, i, ids, calls, sleeps, result>>

-----------------------------------------------------------------------------
(* Bounds of the model *)

MaxItems == 2       \* longest "items" list / profile collection of a reply
MaxPayloads == 31   \* longest dp_list given to add_device_profiles
MaxSkips == 1       \* most POST replies without a body (null or empty) per call
MaxDelete == 3      \* longest dp_list given to delete_device_profiles

(* Program constants *)

ThrottleEvery == 30
ThrottleSleep == 3

-----------------------------------------------------------------------------
(* Python values *)

None == "None"
Null == [kind |-> "null"]
Raise == [kind |-> "raise"]
Body(b) == [kind |-> "body", body |-> b]
EmptyObj == [k \in {} |-> None]

NoResult == [kind |-> "none"]
Ok(v) == [kind |-> "ok", value |-> v]
Error(type, msg) == [kind |-> "error", type |-> type, msg |-> msg]
KeyError(k) == Error("KeyError", <<k>>)
TypeError == Error("TypeError", <<"'NoneType' object is not subscriptable">>)
TransportError == Error("AosAPIError", <<"transport">>)

\* one transport call: json_resp_get(path), json_resp_post(path, data=data),
\* json_resp_delete(path), and how it ended
Call(verb, path, data, reply) ==
    [verb |-> verb, path |-> path, data |-> data, reply |-> reply]

\* dict.get(key, default)
Get(obj, key, default) == IF key \in DOMAIN obj THEN obj[key] ELSE default

\* the smallest element of a non-empty set of integers
Min(S) == CHOOSE m \in S : \A n \in S : m <= n

\* every sequence over S of length at most n
SeqUpTo(S, n) == UNION {[1..m -> S] : m \in 0..n}


-----------------------------------------------------------------------------
(* AosManagedDevices *)

AgentIds == {"s1", "s2"}
AnomalyTypes == {"bgp", "cabling"}

\* raw items of GET /api/systems: "id" is read with s["id"], "status" and
\* "facts" with .get(..., {}), their fields with .get(...)
SystemItems ==
    { [id |-> "s1", status |-> [fqdn |-> "sw1"], facts |-> EmptyObj],
      [id |-> "s2", status |-> [fqdn |-> "sw2", operation_mode |-> "full_control"],
                    facts |-> [vendor |-> "v"]],
      [id |-> "s3"],
      [id |-> "s4", facts |-> [vendor |-> "v"]],
      [status |-> [fqdn |-> "sw5"]] }

\* raw items of GET api/systems/{id}/anomalies: well-formed ones, with and
\* without "identity", and ones that lack a key read with anomaly["..."]
WellFormedAnomalyItems ==
    { [anomaly_type |-> t, id |-> "a1", identity |-> idt, severity |-> "critical"] :
          t \in AnomalyTypes, idt \in {[system_id |-> "s1"], EmptyObj} }
    \cup { [anomaly_type |-> t, id |-> "a2", severity |-> "critical"] : t \in AnomalyTypes }

MalformedAnomalyItems ==
    { [id |-> "a3", severity |-> "critical"] }
    \cup { [anomaly_type |-> t, severity |-> "critical"] : t \in AnomalyTypes }
    \cup { [anomaly_type |-> t, id |-> "a4"] : t \in AnomalyTypes }

AnomalyItems == WellFormedAnomalyItems \cup MalformedAnomalyItems

\* replies of the transport to a collection GET whose body is {"items": [...]}
ItemsReplies(Items) ==
    {Null, Raise, Body([message |-> "x"])}
    \cup { Body([items |-> l]) : l \in SeqUpTo(Items, MaxItems) }

SystemAgent(s) ==
    [ id |-> s["id"],
      fqdn |-> Get(Get(s, "status", EmptyObj), "fqdn", None),
      operation_mode |-> Get(Get(s, "status", EmptyObj), "operation_mode", None),
      vendor |-> Get(Get(s, "facts", EmptyObj), "vendor", None) ]

\* AosManagedDevices.get_all, given the transport's reply
managed_devices_get_all(reply) ==
    IF reply.kind = "raise" THEN TransportError
    ELSE IF reply.kind = "null" THEN Ok(<<>>)
    ELSE IF "items" \notin DOMAIN reply.body THEN KeyError("items")
    ELSE LET items == reply.body["items"] IN
         IF \E k \in 1..Len(items) : "id" \notin DOMAIN items[k]
         THEN KeyError("id")
         ELSE Ok([k \in 1..Len(items) |-> SystemAgent(items[k])])

\* the Anomaly one raw item yields, or the KeyError of the first key it lacks
\* (the keyword arguments are evaluated in the order written)
AnomalyOf(anomaly) ==
    IF "anomaly_type" \notin DOMAIN anomaly THEN KeyError("anomaly_type")
    ELSE IF "id" \notin DOMAIN anomaly THEN KeyError("id")
    ELSE IF "severity" \notin DOMAIN anomaly THEN KeyError("severity")
    ELSE Ok([ type |-> anomaly["anomaly_type"],
              id |-> anomaly["id"],
              agent_id |-> Get(Get(anomaly, "identity", EmptyObj), "system_id", None),
              severity |-> anomaly["severity"] ])

\* IterAnomaliesStart without the test `if anomalies is None: return`
IterAnomaliesStartNoNoneTest(reply) ==
    IF reply.kind = "raise" THEN TransportError
    ELSE IF reply.kind = "null" THEN TypeError
    ELSE IF "items" \notin DOMAIN reply.body THEN KeyError("items")
    ELSE Ok(reply.body["items"])

\* what the generator _iter_anomalies does before its first item: the GET,
\* the None test and the lookup of "items".  Ok(items) or an error.
IterAnomaliesStart(reply) ==
    IF reply.kind = "raise" THEN TransportError
    ELSE IF reply.kind = "null" THEN Ok(<<>>)
    ELSE IF "items" \notin DOMAIN reply.body THEN KeyError("items")
    ELSE Ok(reply.body["items"])

\* list(self._iter_anomalies(id)): the generator is run to its end, so the
\* first raw item that lacks a key fails the whole call
get_anomalies(reply) ==
    LET start == IterAnomaliesStart(reply) IN
    IF start.kind = "error" THEN start
    ELSE LET items == start.value
             bad == {k \in 1..Len(items) : AnomalyOf(items[k]).kind = "error"}
         IN  IF bad # {} THEN AnomalyOf(items[Min(bad)])
             ELSE Ok([k \in 1..Len(items) |-> AnomalyOf(items[k]).value])

\* self.get_anomalies(id) != []
has_anomalies(reply) ==
    LET l == get_anomalies(reply) IN
    IF l.kind = "error" THEN l ELSE Ok(l.value # <<>>)

\* ScanAnomalies with `return False` inside the loop: only the first item
\* is looked at
ScanAnomaliesFirstOnly(items, k, anomaly_type) ==
    IF k > Len(items) THEN Ok(FALSE)
    ELSE LET a == AnomalyOf(items[k]) IN
         IF a.kind = "error" THEN a ELSE Ok(a.value.type = anomaly_type)

\* ScanAnomalies over the materialized list: every item is mapped before
\* the first is tested
ScanAnomaliesEager(items, k, anomaly_type) ==
    LET bad == {j \in k..Len(items) : AnomalyOf(items[j]).kind = "error"} IN
    IF bad # {} THEN AnomalyOf(items[Min(bad)])
    ELSE Ok(\E j \in k..Len(items) : AnomalyOf(items[j]).value.type = anomaly_type)

\* the for loop of has_anomalies_of_type from the k-th raw item on: the
\* generator maps item k only when the loop asks for it
RECURSIVE ScanAnomalies(_, _, _)
ScanAnomalies(items, k, anomaly_type) ==
    IF k > Len(items) THEN Ok(FALSE)
    ELSE LET a == AnomalyOf(items[k]) IN
         IF a.kind = "error" THEN a
         ELSE IF a.value.type = anomaly_type THEN Ok(TRUE)
         ELSE ScanAnomalies(items, k + 1, anomaly_type)

has_anomalies_of_type(reply, anomaly_type) ==
    LET start == IterAnomaliesStart(reply) IN
    IF start.kind = "error" THEN start
    ELSE ScanAnomalies(start.value, 1, anomaly_type)

SystemsPath == <<"/api/systems">>
AnomaliesPath(system_agent_id) == <<"api/systems/", system_agent_id, "/anomalies">>

-----------------------------------------------------------------------------
(* AosSystemAgents *)

PackageKeys == <<"name", "version">>
ImageKeys ==
    <<"description", "checksum", "image_name", "platform", "image_url", "type", "id">>

FullPackages == { [name |-> n, version |-> "1.0"] : n \in {"p1", "p2"} }
FullImages ==
    { [description |-> "d", checksum |-> "c", image_name |-> "n", platform |-> "p",
       image_url |-> "u", type |-> "t", id |-> x] : x \in {"i1", "i2"} }

\* obj without key k
Without(obj, k) == [j \in DOMAIN obj \ {k} |-> obj[j]]

\* every full item, and every full item with one key removed
WithHoles(Full, Keys) ==
    Full \cup { Without(o, Keys[n]) : o \in Full, n \in 1..Len(Keys) }

PackageItems == WithHoles(FullPackages, PackageKeys)
ImageItems == WithHoles(FullImages, ImageKeys)

\* the record built from one raw item by reading Keys in order with
\* item[key], or the KeyError of the first key the item lacks
RecordOf(item, Keys) ==
    LET lacking == {n \in 1..Len(Keys) : Keys[n] \notin DOMAIN item} IN
    IF lacking # {} THEN KeyError(Keys[Min(lacking)])
    ELSE Ok([k \in {Keys[n] : n \in 1..Len(Keys)} |-> item[k]])

\* MapItems, were an item that lacks a key left out of the list
MapItemsLenient(reply, Keys) ==
    IF reply.kind = "raise" THEN TransportError
    ELSE IF reply.kind = "null" THEN TypeError
    ELSE IF "items" \notin DOMAIN reply.body THEN KeyError("items")
    ELSE LET items == reply.body["items"]
             good == SelectSeq(items, LAMBDA it : RecordOf(it, Keys).kind = "ok")
         IN  Ok([k \in 1..Len(good) |-> RecordOf(good[k], Keys).value])

\* [Record(...) for item in resp["items"]] with no test of resp
MapItems(reply, Keys) ==
    IF reply.kind = "raise" THEN TransportError
    ELSE IF reply.kind = "null" THEN TypeError
    ELSE IF "items" \notin DOMAIN reply.body THEN KeyError("items")
    ELSE LET items == reply.body["items"]
             bad == {k \in 1..Len(items) : RecordOf(items[k], Keys).kind = "error"}
         IN  IF bad # {} THEN RecordOf(items[Min(bad)], Keys)
             ELSE Ok([k \in 1..Len(items) |-> RecordOf(items[k], Keys).value])

get_packages(reply) == MapItems(reply, PackageKeys)
get_os_images(reply) == MapItems(reply, ImageKeys)

PackagesPath == <<"/api/packages">>
OsImagesPath == <<"/api/device-os/images">>

-----------------------------------------------------------------------------
(* AosDeviceProfiles *)

ProfilesPath == <<"/api/device-profiles">>
ProfilePath(dp_id) == <<"/api/device-profiles/", dp_id>>

\* the device profiles the controller may hold: two share a display_name,
\* one has none
Profiles ==
    { [id |-> "d1", display_name |-> "X"],
      [id |-> "d2", display_name |-> "X"],
      [id |-> "d3", display_name |-> "Y"],
      [id |-> "d4"] }

ProfileNames == {None, "", "X", "Y", "Z"}
ProfileIds == {None, "d1", "d9"}

\* replies to GET /api/device-profiles (a JSON list of profile objects)
\* and to GET /api/device-profiles/{id}
CollectionReplies == {Null, Raise} \cup { Body(l) : l \in SeqUpTo(Profiles, MaxItems) }
SingleReplies == {Null, Raise, Body([id |-> "d1", display_name |-> "X"])}

\* Python truth of a str-or-None argument
TruthyStr(x) == x # None /\ x # ""

\* Python truth of a decoded list-or-None: None and [] are false
TruthyList(reply) == reply.kind = "body" /\ Len(reply.body) > 0

\* Python truth of a decoded object-or-None: None and {} are false
TruthyObj(reply) == reply.kind = "body" /\ DOMAIN reply.body # {}

\* return self.rest.json_resp_get(path): the decoded body, None, or the error
Returned(reply) ==
    IF reply.kind = "raise" THEN TransportError
    ELSE IF reply.kind = "null" THEN Ok(None)
    ELSE Ok(reply.body)

NotFound(dp_name) == Error("AosAPIError", <<"External Router ", dp_name, " not found">>)

\* the greatest element of a non-empty set of integers
Max(S) == CHOOSE m \in S : \A n \in S : m >= n

\* LookupByName, were the loop to keep the last object of the name
LookupByNameLast(dev_profs, dp_name) ==
    LET hits == {k \in 1..Len(dev_profs) : Get(dev_profs[k], "display_name", None) = dp_name} IN
    IF hits # {} THEN Ok(dev_profs[Max(hits)]) ELSE NotFound(dp_name)

\* the for loop of get_device_profile over a non-empty collection
LookupByName(dev_profs, dp_name) ==
    LET hits == {k \in 1..Len(dev_profs) : Get(dev_profs[k], "display_name", None) = dp_name} IN
    IF hits # {} THEN Ok(dev_profs[Min(hits)]) ELSE NotFound(dp_name)

\* get_device_profile(dp_id, dp_name), given the reply the transport has for
\* the collection GET and the one it has for the single-resource GET:
\* [result, calls], calls being the GETs actually issued
get_device_profile(dp_id, dp_name, all_reply, one_reply) ==
    LET by_id == [ result |-> Returned(one_reply),
                   calls |-> <<Call("GET", ProfilePath(dp_id), None, one_reply)>> ]
        get_all == Call("GET", ProfilesPath, None, all_reply)
    IN  IF TruthyStr(dp_name)
        THEN IF all_reply.kind = "raise"
             THEN [result |-> TransportError, calls |-> <<get_all>>]
             ELSE IF TruthyList(all_reply)
             THEN [result |-> LookupByName(all_reply.body, dp_name), calls |-> <<get_all>>]
             ELSE [result |-> by_id.result, calls |-> <<get_all>> \o by_id.calls]
        ELSE by_id

\* dp_list of add_device_profiles: n payloads, the k-th labelled k
Payloads(n) == [k \in 1..n |-> k]

\* replies to the POST of a payload: no body, an empty object, the id of the
\* created profile (the payload's label), an object without "id", an error
PostReplies(payload) ==
    {Null, Raise, Body(EmptyObj), Body([id |-> payload]), Body([message |-> "x"])}

\* replies to a DELETE (the code never looks at them)
DeleteReplies == {Null, Raise, Body([status |-> "gone"])}

DeleteIds == {"a", "b", "c"}

\* the POST replies so far that brought no body
Skips == Cardinality({k \in 1..Len(calls) : ~TruthyObj(calls[k].reply)})

-----------------------------------------------------------------------------
(* The calls *)

Init ==
    /\ op = "idle"
    /\ pc = "idle"
    /\ args = EmptyObj
    /\ i = 0
    /\ ids = <<>>
    /\ calls = <<>>
    /\ sleeps = <<>>
    /\ result = NoResult

\* no call is in progress
CanCall == pc = "idle"

\* a method that is one step: its arguments, the calls it issued, its outcome
Finish(method, a, c, r) ==
    /\ op' = method
    /\ args' = a
    /\ calls' = c
    /\ result' = r
    /\ pc' = IF r.kind = "error" THEN "raised" ELSE "returned"
    /\ i' = 0
    /\ ids' = <<>>
    /\ sleeps' = <<>>

\* a batch method enters its loop: ids = [], i = 0
Enter(method, a) ==
    /\ op' = method
    /\ args' = a
    /\ calls' = <<>>
    /\ result' = NoResult
    /\ pc' = "loop"
    /\ i' = 0
    /\ ids' = <<>>
    /\ sleeps' = <<>>

ManagedGetAll ==
    /\ CanCall
    /\ \E reply \in ItemsReplies(SystemItems) :
          Finish("managed_devices.get_all", EmptyObj,
                 <<Call("GET", SystemsPath, None, reply)>>,
                 managed_devices_get_all(reply))

CallGetAnomalies ==
    /\ CanCall
    /\ \E id \in AgentIds, reply \in ItemsReplies(AnomalyItems) :
          Finish("get_anomalies", [system_agent_id |-> id],
                 <<Call("GET", AnomaliesPath(id), None, reply)>>,
                 get_anomalies(reply))

CallHasAnomalies ==
    /\ CanCall
    /\ \E id \in AgentIds, reply \in ItemsReplies(AnomalyItems) :
          Finish("has_anomalies", [system_agent_id |-> id],
                 <<Call("GET", AnomaliesPath(id), None, reply)>>,
                 has_anomalies(reply))

CallHasAnomaliesOfType ==
    /\ CanCall
    /\ \E id \in AgentIds, t \in AnomalyTypes \cup {"probe"},
          reply \in ItemsReplies(AnomalyItems) :
          Finish("has_anomalies_of_type", [system_agent_id |-> id, anomaly_type |-> t],
                 <<Call("GET", AnomaliesPath(id), None, reply)>>,
                 has_anomalies_of_type(reply, t))

CallGetPackages ==
    /\ CanCall
    /\ \E reply \in ItemsReplies(PackageItems) :
          Finish("get_packages", EmptyObj,
                 <<Call("GET", PackagesPath, None, reply)>>,
                 get_packages(reply))

CallGetOsImages ==
    /\ CanCall
    /\ \E reply \in ItemsReplies(ImageItems) :
          Finish("get_os_images", EmptyObj,
                 <<Call("GET", OsImagesPath, None, reply)>>,
                 get_os_images(reply))

CallGetDeviceProfile ==
    /\ CanCall
    /\ \E dp_id \in ProfileIds, dp_name \in ProfileNames,
          all_reply \in CollectionReplies, one_reply \in SingleReplies :
          LET out == get_device_profile(dp_id, dp_name, all_reply, one_reply) IN
          Finish("get_device_profile", [dp_id |-> dp_id, dp_name |-> dp_name],
                 out.calls, out.result)

CallAddDeviceProfiles ==
    /\ CanCall
    /\ \E n \in 0..MaxPayloads :
          Enter("add_device_profiles", [dp_list |-> Payloads(n)])

\* Collected, were the id put at the front of the list
CollectedFront(l, reply) == IF TruthyObj(reply) THEN <<reply.body["id"]>> \o l ELSE l

\* the ids after one reply: `if resp: ids.append(resp["id"])`
Collected(l, reply) == IF TruthyObj(reply) THEN Append(l, reply.body["id"]) ELSE l

\* ThrottleDue, were i tested before `i += 1`
ThrottleDueBeforeIncrement(n) == (n - 1) % ThrottleEvery = 0

\* `if i % 30 == 0`, i being the count of submissions made
ThrottleDue(n) == n % ThrottleEvery = 0

\* PostOutcome, were the POST wrapped in a try/except that goes on
PostOutcomeSwallow(reply) ==
    IF TruthyObj(reply) /\ "id" \notin DOMAIN reply.body THEN "keyerror"
    ELSE "continue"

\* how one POST goes on: the transport's error leaves the method at once, a
\* true reply without "id" fails resp["id"], anything else goes round the loop
PostOutcome(reply) ==
    IF reply.kind = "raise" THEN "raise"
    ELSE IF TruthyObj(reply) /\ "id" \notin DOMAIN reply.body THEN "keyerror"
    ELSE "continue"

\* one iteration of `while i < len(dp_list)`
AddIteration ==
    /\ pc = "loop"
    /\ op = "add_device_profiles"
    /\ i < Len(args.dp_list)
    /\ \E reply \in PostReplies(args.dp_list[i + 1]) :
          /\ TruthyObj(reply) \/ reply.kind = "raise" \/ Skips < MaxSkips
          /\ calls' = Append(calls, Call("POST", ProfilesPath, args.dp_list[i + 1], reply))
          /\ IF PostOutcome(reply) = "raise"
             THEN /\ result' = TransportError
                  /\ pc' = "raised"
                  /\ UNCHANGED <<i, ids, sleeps>>
             ELSE IF PostOutcome(reply) = "keyerror"
             THEN /\ result' = KeyError("id")
                  /\ pc' = "raised"
                  /\ UNCHANGED <<i, ids, sleeps>>
             ELSE /\ ids' = Collected(ids, reply)
                  /\ i' = i + 1
                  /\ sleeps' = IF ThrottleDue(i + 1)
                               THEN Append(sleeps, [secs |-> ThrottleSleep,
                                                    posts |-> Len(calls) + 1])
                               ELSE sleeps
                  /\ UNCHANGED <<result, pc>>
    /\ UNCHANGED <<op, args>>

\* the loop is over: `return ids`
AddReturn ==
    /\ pc = "loop"
    /\ op = "add_device_profiles"
    /\ i >= Len(args.dp_list)
    /\ result' = Ok(ids)
    /\ pc' = "returned"
    /\ UNCHANGED <<op, args, i, ids, calls, sleeps>>

CallDeleteDeviceProfiles ==
    /\ CanCall
    /\ \E l \in SeqUpTo(DeleteIds, MaxDelete) :
          Enter("delete_device_profiles", [dp_list |-> l])

\* Deleted, were an id kept only when its DELETE brought a body
DeletedIfConfirmed(l, dp_id, reply) == IF reply.kind = "body" THEN Append(l, dp_id) ELSE l

\* `ids.append(dp_id)` after the DELETE of dp_id came back with reply
Deleted(l, dp_id, reply) == Append(l, dp_id)

\* one iteration of `for dp_id in dp_list`
DeleteIteration ==
    /\ pc = "loop"
    /\ op = "delete_device_profiles"
    /\ i < Len(args.dp_list)
    /\ \E reply \in DeleteReplies :
          LET dp_id == args.dp_list[i + 1] IN
          /\ calls' = Append(calls, Call("DELETE", ProfilePath(dp_id), None, reply))
          /\ IF reply.kind = "raise"
             THEN /\ result' = TransportError
                  /\ pc' = "raised"
                  /\ UNCHANGED <<i, ids>>
             ELSE /\ ids' = Deleted(ids, dp_id, reply)
                  /\ i' = i + 1
                  /\ UNCHANGED <<result, pc>>
    /\ UNCHANGED <<op, args, sleeps>>

DeleteReturn ==
    /\ pc = "loop"
    /\ op = "delete_device_profiles"
    /\ i >= Len(args.dp_list)
    /\ result' = Ok(ids)
    /\ pc' = "returned"
    /\ UNCHANGED <<op, args, i, ids, calls, sleeps>>

\* the caller has its result or its error; the objects keep nothing of a
\* call (self.rest is their only attribute), so the next call starts afresh
Forget ==
    /\ pc \in {"returned", "raised"}
    /\ op' = "idle"
    /\ pc' = "idle"
    /\ args' = EmptyObj
    /\ i' = 0
    /\ ids' = <<>>
    /\ calls' = <<>>
    /\ sleeps' = <<>>
    /\ result' = NoResult

Next ==
    \/ ManagedGetAll
    \/ CallGetAnomalies
    \/ CallHasAnomalies
    \/ CallHasAnomaliesOfType
    \/ CallGetPackages
    \/ CallGetOsImages
    \/ CallGetDeviceProfile
    \/ CallAddDeviceProfiles
    \/ AddIteration
    \/ AddReturn
    \/ CallDeleteDeviceProfiles
    \/ DeleteIteration
    \/ DeleteReturn
    \/ Forget

Spec == Init /\ [][Next]_vars

\* a call in progress runs on: the methods are synchronous, and nothing
\* in them waits for anything but the transport's reply
FairSpec ==
    /\ Spec
    /\ WF_vars(AddIteration) /\ WF_vars(AddReturn)
    /\ WF_vars(DeleteIteration) /\ WF_vars(DeleteReturn)

-----------------------------------------------------------------------------
(* Properties of get_device_profile *)

\* a finished call of method m
Finished(m) == op = m /\ pc \in {"returned", "raised"}

\* the objects of the collection a reply to GET /api/device-profiles holds
ObjectsOf(reply) == IF reply.kind = "body" THEN reply.body ELSE <<>>

\* object o carries display_name n
Named(o, n) == "display_name" \in DOMAIN o /\ o["display_name"] = n

\* C1: get_device_profile with a non-empty dp_name, once get_all has
\* returned a collection (an empty one and a null response included) in
\* which no object has display_name = dp_name, fails with the error that
\* carries dp_name and issues no GET to /api/device-profiles/{dp_id}.
C1_NotFoundWheneverNoMatch ==
    (/\ Finished("get_device_profile")
     /\ TruthyStr(args.dp_name)
     /\ calls[1].reply.kind # "raise"
     /\ \A k \in 1..Len(ObjectsOf(calls[1].reply)) :
           ~Named(ObjectsOf(calls[1].reply)[k], args.dp_name))
    => /\ result = NotFound(args.dp_name)
       /\ Len(calls) = 1

\* C2: with a dp_name that some object of the collection carries,
\* get_device_profile returns the first such object and issues the collection
\* GET alone, whatever dp_id is; with no dp_name it issues one GET to
\* /api/device-profiles/{dp_id} and returns that reply.
C2_NameBeforeId ==
    Finished("get_device_profile") =>
        LET objs == ObjectsOf(calls[1].reply) IN
        /\ (/\ TruthyStr(args.dp_name)
            /\ \E k \in 1..Len(objs) : Named(objs[k], args.dp_name))
           => /\ \E k \in 1..Len(objs) :
                    /\ Named(objs[k], args.dp_name)
                    /\ \A j \in 1..(k - 1) : ~Named(objs[j], args.dp_name)
                    /\ result = Ok(objs[k])
              /\ Len(calls) = 1
              /\ calls[1].verb = "GET"
              /\ calls[1].path = ProfilesPath
        /\ ~TruthyStr(args.dp_name)
           => /\ Len(calls) = 1
              /\ calls[1].verb = "GET"
              /\ calls[1].path = ProfilePath(args.dp_id)
              /\ result = (IF calls[1].reply.kind = "raise" THEN TransportError
                           ELSE IF calls[1].reply.kind = "null" THEN Ok(None)
                           ELSE Ok(calls[1].reply.body))

\* dp_id and dp_name are both given, two objects carry the name, and the
\* first of them is returned
C2_Witness ==
    /\ Finished("get_device_profile")
    /\ args.dp_name = "X" /\ args.dp_id = "d1"
    /\ Len(calls) = 1
    /\ calls[1].reply = Body(<<[id |-> "d3", display_name |-> "Y"],
                               [id |-> "d2", display_name |-> "X"]>>)
    /\ result = Ok([id |-> "d2", display_name |-> "X"])

-----------------------------------------------------------------------------
(* Properties of the anomaly accessors *)

AnomalyMethods == {"get_anomalies", "has_anomalies", "has_anomalies_of_type"}

\* the raw item holds the three keys read with anomaly["..."]
WellFormedAnomaly(item) == {"anomaly_type", "id", "severity"} \subseteq DOMAIN item

\* the reply is a body whose "items" are all well-formed
WellFormedAnomalies(reply) ==
    /\ reply.kind = "body"
    /\ "items" \in DOMAIN reply.body
    /\ \A k \in 1..Len(reply.body["items"]) : WellFormedAnomaly(reply.body["items"][k])

\* the system_id of the raw item's "identity", None without one
SystemIdOf(item) ==
    IF "identity" \in DOMAIN item /\ "system_id" \in DOMAIN item["identity"]
    THEN item["identity"]["system_id"] ELSE None

\* C6: on a well-formed anomalies reply, get_anomalies returns one Anomaly
\* per raw item in the reply's order, has_anomalies is true iff that list is
\* non-empty, and has_anomalies_of_type(id, t) is true iff some anomaly of
\* the list get_anomalies builds from the same reply has type t.
C6_AnomalyAccessorsAgree ==
    (op \in AnomalyMethods /\ Finished(op) /\ WellFormedAnomalies(calls[1].reply)) =>
        LET items == calls[1].reply.body["items"] IN
        /\ op = "get_anomalies" =>
              /\ result.kind = "ok"
              /\ Len(result.value) = Len(items)
              /\ \A k \in 1..Len(items) :
                    /\ result.value[k].type = items[k]["anomaly_type"]
                    /\ result.value[k].id = items[k]["id"]
                    /\ result.value[k].severity = items[k]["severity"]
                    /\ result.value[k].agent_id = SystemIdOf(items[k])
        /\ op = "has_anomalies" => result = Ok(Len(items) > 0)
        /\ op = "has_anomalies_of_type" =>
              LET full == get_anomalies(calls[1].reply) IN
              /\ full.kind = "ok"
              /\ result = Ok(\E k \in 1..Len(full.value) :
                                full.value[k].type = args.anomaly_type)

\* the anomaly of the requested type is the second of two
C6_Witness ==
    /\ Finished("has_anomalies_of_type")
    /\ args.anomaly_type = "bgp"
    /\ WellFormedAnomalies(calls[1].reply)
    /\ Len(calls[1].reply.body["items"]) = 2
    /\ calls[1].reply.body["items"][1]["anomaly_type"] = "cabling"
    /\ calls[1].reply.body["items"][2]["anomaly_type"] = "bgp"
    /\ result = Ok(TRUE)

\* C7: on a null body the ManagedDevices accessors neither fail nor return
\* null: get_all and get_anomalies return the empty sequence, has_anomalies
\* and has_anomalies_of_type return false.
C7_NullBodyIsEmpty ==
    (/\ op \in AnomalyMethods \cup {"managed_devices.get_all"}
     /\ Finished(op)
     /\ calls[1].reply = Null)
    => /\ pc = "returned"
       /\ op \in {"managed_devices.get_all", "get_anomalies"} => result = Ok(<<>>)
       /\ op \in {"has_anomalies", "has_anomalies_of_type"} => result = Ok(FALSE)

C7_Witness ==
    /\ Finished("has_anomalies_of_type")
    /\ calls[1].reply = Null
    /\ args.anomaly_type = "bgp"
    /\ result = Ok(FALSE)

\* the outcome of testing the full list of get_anomalies for type t
FullThenTest(reply, t) ==
    LET full == get_anomalies(reply) IN
    IF full.kind = "error" THEN full
    ELSE Ok(\E k \in 1..Len(full.value) : full.value[k].type = t)

\* C9 as claimed: on every reply, has_anomalies_of_type ends as computing
\* the full list with get_anomalies and testing it does: the same boolean,
\* or an error in both.
C9_ScanEqualsFullList ==
    Finished("has_anomalies_of_type") =>
        LET full == FullThenTest(calls[1].reply, args.anomaly_type) IN
        IF full.kind = "error" THEN result.kind = "error" ELSE result = full

\* the raw items of a reply, none when it has no items
RawItems(reply) ==
    IF reply.kind = "body" /\ "items" \in DOMAIN reply.body THEN reply.body["items"] ELSE <<>>

\* item m is well-formed and of type t, and so is every item before it
\* well-formed
MatchBeforeAnyHole(items, t) ==
    \E m \in 1..Len(items) :
        /\ \A j \in 1..m : WellFormedAnomaly(items[j])
        /\ items[m]["anomaly_type"] = t

\* C9 amended: has_anomalies_of_type ends as the full list does, except
\* when a raw item that lacks a required key comes after an item of the
\* requested type that no such item precedes: the scan then returns true,
\* and get_anomalies fails.  So the scan returns what the full list gives
\* whenever get_anomalies succeeds, and when the scan fails get_anomalies
\* fails with the same error.
C9_ScanEqualsFullListUpToFirstMatch ==
    Finished("has_anomalies_of_type") =>
        LET full == FullThenTest(calls[1].reply, args.anomaly_type)
            items == RawItems(calls[1].reply)
        IN  /\ IF MatchBeforeAnyHole(items, args.anomaly_type)
               THEN result = Ok(TRUE)
               ELSE result = full
            /\ full.kind = "ok" => result = full
            /\ result.kind = "error" => full = result

\* an item without "id" follows an item of the requested type: the scan
\* says true, the full list fails
C9_Witness ==
    /\ Finished("has_anomalies_of_type")
    /\ args.anomaly_type = "bgp"
    /\ Len(RawItems(calls[1].reply)) = 2
    /\ WellFormedAnomaly(RawItems(calls[1].reply)[1])
    /\ RawItems(calls[1].reply)[1]["anomaly_type"] = "bgp"
    /\ "id" \notin DOMAIN RawItems(calls[1].reply)[2]
    /\ result = Ok(TRUE)
    /\ get_anomalies(calls[1].reply) = KeyError("id")

-----------------------------------------------------------------------------
(* Properties of get_packages and get_os_images *)

KeysRead(m) == IF m = "get_packages" THEN PackageKeys ELSE ImageKeys

\* the raw item lacks one of Keys
Lacks(item, Keys) == \E n \in 1..Len(Keys) : Keys[n] \notin DOMAIN item

\* C8: get_packages and get_os_images end in an error, never in an empty
\* list, on a null body; and they end in an error, with no partial list,
\* whenever an item lacks one of the keys read (name, version; the seven
\* keys of an image).
C8_NullOrHoleIsError ==
    (op \in {"get_packages", "get_os_images"} /\ Finished(op)) =>
        LET reply == calls[1].reply
            items == RawItems(reply)
        IN  /\ reply = Null => pc = "raised" /\ result.kind = "error"
            /\ (\E k \in 1..Len(items) : Lacks(items[k], KeysRead(op)))
               => pc = "raised" /\ result.kind = "error"
            /\ result.kind = "ok" =>
                  /\ reply.kind = "body"
                  /\ Len(result.value) = Len(items)
                  /\ \A k \in 1..Len(items) : result.value[k] = items[k]

\* the second image lacks "checksum" and the call fails on it
C8_Witness ==
    /\ Finished("get_os_images")
    /\ Len(RawItems(calls[1].reply)) = 2
    /\ ~Lacks(RawItems(calls[1].reply)[1], ImageKeys)
    /\ "checksum" \notin DOMAIN RawItems(calls[1].reply)[2]
    /\ result = KeyError("checksum")

-----------------------------------------------------------------------------
(* Properties of add_device_profiles *)

\* add_device_profiles is running or has returned: no POST has failed
AddGoing == op = "add_device_profiles" /\ pc \in {"loop", "returned"}

\* C3: while no POST fails, the pause of 3 has been taken once per 30 POSTs
\* issued, the k-th with exactly 30*k POSTs issued (after the 30*k-th and
\* before the next, or before the return), null and empty replies counting
\* as submissions; so a call with n payloads returns after floor(n/30)
\* pauses, one pause for n = 31.
C3_PauseEvery30Posts ==
    AddGoing =>
        /\ Len(sleeps) = Len(calls) \div 30
        /\ \A k \in 1..Len(sleeps) : sleeps[k] = [secs |-> 3, posts |-> 30 * k]
        /\ pc = "returned" =>
              /\ Len(calls) = Len(args.dp_list)
              /\ Len(sleeps) = Len(args.dp_list) \div 30

\* 31 payloads, one of the first 30 POSTs answered with null: one pause,
\* taken with 30 POSTs issued
C3_Witness ==
    /\ AddGoing /\ pc = "returned"
    /\ Len(args.dp_list) = 31
    /\ \E k \in 1..30 : calls[k].reply = Null
    /\ sleeps = <<[secs |-> 3, posts |-> 30]>>

\* the call carries an id
HasId(c) == c.reply.kind = "body" /\ "id" \in DOMAIN c.reply.body

\* the ids the replies of the calls carry, in the calls' order
IdValues(cs) ==
    LET with == SelectSeq(cs, HasId) IN [k \in 1..Len(with) |-> with[k].reply.body["id"]]

\* the safety part of C4: POSTs, ids and result so far
C4_OnePostPerPayload ==
    AddGoing =>
        /\ Len(calls) <= Len(args.dp_list)
        /\ \A k \in 1..Len(calls) :
              /\ calls[k].verb = "POST"
              /\ calls[k].path = ProfilesPath
              /\ calls[k].data = args.dp_list[k]
        /\ ids = IdValues(calls)
        /\ pc = "returned" =>
              /\ Len(calls) = Len(args.dp_list)
              /\ result = Ok(IdValues(calls))
              /\ Len(result.value) <= Len(args.dp_list)

\* C4: while no POST fails (the transport does not raise and every reply
\* with a body carries an id or is empty), add_device_profiles has issued
\* one POST per payload handled, in input order; the ids collected, and at
\* the end the result, are exactly the ids of the replies that carry one,
\* in submission order, so at most as many as payloads; a null reply adds
\* no id and the payloads after it are still submitted; and the call ends.
C4_CollectsIdsInOrderAndEnds ==
    /\ []C4_OnePostPerPayload
    /\ (op = "add_device_profiles" /\ pc = "loop")
          ~> (op = "add_device_profiles" /\ pc \in {"returned", "raised"})

\* three payloads, the second answered with null: ids of the first and third
C4_Witness ==
    /\ AddGoing /\ pc = "returned"
    /\ Len(args.dp_list) = 3
    /\ calls[1].reply = Body([id |-> 1])
    /\ calls[2].reply = Null
    /\ calls[3].reply = Body([id |-> 3])
    /\ result = Ok(<<1, 3>>)

\* C10: once the transport has raised on a POST of add_device_profiles, the
\* call has ended with that error: the failed POST is the last one issued,
\* no pause follows it, nothing more of the call can run, and the caller
\* gets the error, not the ids collected before it.
C10_RaisedPostEndsTheCall ==
    (/\ op = "add_device_profiles"
     /\ \E k \in 1..Len(calls) : calls[k].reply = Raise)
    => /\ pc = "raised"
       /\ result = TransportError
       /\ calls[Len(calls)].reply = Raise
       /\ \A k \in 1..(Len(calls) - 1) : calls[k].reply # Raise
       /\ Len(calls) <= Len(args.dp_list)
       /\ Len(sleeps) = (Len(calls) - 1) \div 30
       /\ ~ENABLED AddIteration
       /\ ~ENABLED AddReturn

\* the third POST of four raises after two ids were collected
C10_Witness ==
    /\ op = "add_device_profiles" /\ pc = "raised"
    /\ Len(args.dp_list) = 4
    /\ Len(calls) = 3
    /\ calls[3].reply = Raise
    /\ ids = <<1, 2>>
    /\ result = TransportError

-----------------------------------------------------------------------------
(* Properties of delete_device_profiles *)

\* C5 as claimed: delete_device_profiles ends by returning the full input
\* id sequence, whatever the transport did for each DELETE, a raise included.
C5_AllIdsReturnedWhateverTheTransport ==
    Finished("delete_device_profiles") => result = Ok(args.dp_list)

\* C5 amended: delete_device_profiles issues one DELETE per id, in input
\* order, to /api/device-profiles/{id}; when no DELETE raises it returns the
\* full input id sequence in input order, whatever each DELETE replied;
\* when the transport raises for an id, that error ends the call: no DELETE
\* is issued for the ids after it and no id sequence is returned.
C5_AllIdsReturnedUnlessRaise ==
    (op = "delete_device_profiles" /\ pc # "idle") =>
        /\ Len(calls) <= Len(args.dp_list)
        /\ \A k \in 1..Len(calls) :
              /\ calls[k].verb = "DELETE"
              /\ calls[k].path = <<"/api/device-profiles/", args.dp_list[k]>>
        /\ \A k \in 1..(Len(calls) - 1) : calls[k].reply # Raise
        /\ pc = "returned" =>
              /\ Len(calls) = Len(args.dp_list)
              /\ \A k \in 1..Len(calls) : calls[k].reply # Raise
              /\ result = Ok(args.dp_list)
        /\ pc = "raised" =>
              /\ Len(calls) > 0
              /\ calls[Len(calls)].reply = Raise
              /\ result = TransportError
              /\ ~ENABLED DeleteIteration
              /\ ~ENABLED DeleteReturn
        /\ pc = "loop" => \A k \in 1..Len(calls) : calls[k].reply # Raise

\* of "a", "b", "c" the DELETE of "b" raises: "c" is never deleted and the
\* caller gets the error
C5_Witness ==
    /\ op = "delete_device_profiles" /\ pc = "raised"
    /\ args.dp_list = <<"a", "b", "c">>
    /\ Len(calls) = 2
    /\ calls[1].reply = Null
    /\ calls[2].reply = Raise
    /\ result = TransportError

=============================================================================
